---- MODULE Spec2Model ----
\* A state-machine model of src/downloader.py: the osu! tourney map
\* downloader.  One run of main(): credentials, login, the interactive
\* scrape loop, the existing-artifact filter and the download loop.
EXTENDS Bags, FiniteSets, Integers, Sequences, TLC

VARIABLES
    pc,           \* position of the single control thread
    credsFile,    \* CREDS_FILEPATH exists on disk
    beatmapsets,  \* Downloader.beatmapsets: a Python set of BeatmapSet objects
    nextOid,      \* identity of the next BeatmapSet object to be constructed
    s,            \* scrape_beatmapsets: the input line being handled
    data,         \* scrape_beatmapsets: the latest search response
    collected,    \* the set remove_existing_beatmapsets was called on
    dirs,         \* names of directories present under DOWNLOAD_PATH
    files,        \* names of regular files present under DOWNLOAD_PATH
    tries,        \* run: the local variable tries
    next_set,     \* run: the local variable next_set (NoSet before the loop)
    status,       \* status_code of the most recent download response
    loginStatus,  \* status_code of the login response
    requests,     \* the HTTP requests issued so far, by kind
    dlLog,        \* outcome of each download_beatmapset_file call, in order
    downloads,    \* bag of the set_ids download_beatmapset_file returned True for
    written,      \* files this run opened for writing: <<path, "complete" or "truncated">>
    logged,       \* bag of the log entries emitted by the most recent step
    exitCode      \* exit code of the process, NotExited while it runs

vars == <<pc, credsFile, beatmapsets, nextOid, s, data, collected, dirs, files,
          tries, next_set, status, loginStatus, requests, dlLog, downloads,
          written, logged, exitCode>>

-----------------------------------------------------------------------------
\* Bounds of the model.

\* search requests issued by the scrape loop
MaxSearches == 2
\* beatmap sets in one search response
MaxResults == 2
\* BeatmapSet objects constructed in one run
MaxObjects == 3

-----------------------------------------------------------------------------
\* Program constants.

\* requests.codes.ok
CodesOk == 200
\* run: "if tries > 4"
MaxTries == 4
\* login: sys.exit(1); an uncaught exception ends the interpreter with 1 too
ExitFailure == 1
\* run: sys.exit() without an argument, and the normal end of main()
ExitSuccess == 0

NotExited == -1
NoStatus == 0
NoSet == [oid |-> 0, set_id |-> 0, title |-> <<>>, artist |-> <<>>]

\* Status codes a response can carry.
StatusCodes == {200, 204, 404}

Is2xx(code) == code >= 200 /\ code <= 299

-----------------------------------------------------------------------------
\* Strings are sequences of one-character strings.

DigitChars == <<"0", "1", "2", "3", "4", "5", "6", "7", "8", "9">>

\* str.isnumeric() is true of more than the decimal digits: SUPERSCRIPT TWO
\* is numeric, yet int() rejects it.
SuperTwo == "sup2"
NumericChars == {DigitChars[i] : i \in 1..10} \cup {SuperTwo}

\* f"{n}" for a non-negative integer
RECURSIVE IntToStr(_)
IntToStr(n) ==
    IF n < 10 THEN <<DigitChars[n + 1]>>
    ELSE IntToStr(n \div 10) \o <<DigitChars[(n % 10) + 1]>>

DigitValue(c) == CHOOSE d \in 0..9 : DigitChars[d + 1] = c

\* str.isnumeric(): non-empty and every character numeric
IsNumeric(str) == Len(str) > 0 /\ \A i \in 1..Len(str) : str[i] \in NumericChars

\* int(str) raises ValueError unless every character is a decimal digit
IntRaises(str) == \E i \in 1..Len(str) : str[i] = SuperTwo

RECURSIVE StrToInt(_)
StrToInt(str) ==
    IF Len(str) = 0 THEN 0
    ELSE 10 * StrToInt(SubSeq(str, 1, Len(str) - 1)) + DigitValue(str[Len(str)])

\* ILLEGAL_CHARS = re.compile(r"[\<\>:\"\/\\\|\?*]")
ILLEGAL_CHARS == {"<", ">", ":", "\"", "/", "\\", "|", "?", "*"}

\* a substitution whose character class misses the slash
Sub_KeepsSlash(str) ==
    [i \in 1..Len(str) |-> IF str[i] \in ILLEGAL_CHARS \ {"/"} THEN "_" ELSE str[i]]

\* ILLEGAL_CHARS.sub("_", string)
Sub(str) == [i \in 1..Len(str) |-> IF str[i] \in ILLEGAL_CHARS THEN "_" ELSE str[i]]

\* BeatmapSet.__init__: a fresh object; Python compares and hashes it by
\* identity, since the class defines neither __eq__ nor __hash__.
BeatmapSet(bmset, oid) ==
    [oid |-> oid, set_id |-> bmset.id, title |-> bmset.title, artist |-> bmset.artist]

\* BeatmapSet.__str__
Str(b) == Sub(IntToStr(b.set_id) \o <<" ">> \o b.artist \o <<" ", "-", " ">> \o b.title)

\* dir_path and file_path of remove_existing_beatmapsets, relative to DOWNLOAD_PATH
DirPath(b) == Str(b)
FilePath(b) == Str(b) \o <<".osz">>

\* a write path that leaves the extension out
WritePath_NoExtension(filename) == filename

\* file_path of write_beatmapset_file
WritePath(filename) == filename \o <<".osz">>

-----------------------------------------------------------------------------
\* What the remote service and the console can supply.

\* beatmap sets the search endpoint can return
Catalog == {
    [id |-> 1, artist |-> <<"A">>, title |-> <<"x", ":">>, beatmaps |-> <<11>>],
    [id |-> 2, artist |-> <<"B">>, title |-> <<"y">>, beatmaps |-> <<21, 11>>] }

RECURSIVE SeqsUpTo(_, _)
SeqsUpTo(S, n) ==
    IF n = 0 THEN {<<>>}
    ELSE LET shorter == SeqsUpTo(S, n - 1)
         IN  shorter \cup {Append(q, x) : q \in shorter, x \in S}

\* a search response: a body response.json() parses, carrying
\* data["beatmapsets"], or a body it rejects
SearchResponses ==
    {[json |-> TRUE, beatmapsets |-> q] : q \in SeqsUpTo(Catalog, MaxResults)}
        \cup {[json |-> FALSE, beatmapsets |-> <<>>]}

\* no response has been parsed: before the first search, and once
\* scrape_beatmapsets has returned
NoData == [json |-> FALSE, beatmapsets |-> <<>>]

Sentinel == <<"-", "1">>
InputLines == { <<>>, Sentinel, <<"1", "1">>, <<"2", "1">>, <<"9", "9">>,
                <<"a", "b">>, <<SuperTwo>> }

\* artifacts that may be present in the download directory before the run
InitialDirs == { <<"1", " ", "A", " ", "-", " ", "x", "_">> }
InitialFiles == { <<"2", " ", "B", " ", "-", " ", "y", ".osz">> }

\* log entries are pairs: the message and its argument
Log(entries) == SetToBag({<<e, <<>>>> : e \in entries})

NoRequests == [home |-> 0, login |-> 0, search |-> 0, download |-> 0]
Issue(kind) == [requests EXCEPT ![kind] = @ + 1]

Init ==
    /\ pc = "start"
    /\ credsFile \in BOOLEAN
    /\ beatmapsets = {}
    /\ nextOid = 1
    /\ s = <<>>
    /\ data = NoData
    /\ collected = {}
    /\ dirs \in SUBSET InitialDirs
    /\ files \in SUBSET InitialFiles
    /\ tries = 0
    /\ next_set = NoSet
    /\ status = NoStatus
    /\ loginStatus = NoStatus
    /\ requests = NoRequests
    /\ dlLog = <<>>
    /\ downloads = EmptyBag
    /\ written = {}
    /\ logged = EmptyBag
    /\ exitCode = NotExited

-----------------------------------------------------------------------------
\* An uncaught exception: the interpreter prints a traceback (not a log
\* entry) and exits with status 1.
Crash(entries) ==
    /\ pc' = "crashed"
    /\ exitCode' = ExitFailure
    /\ logged' = Log(entries)

\* main up to the construction of the Downloader, and Downloader.__init__
\* up to the call of login: the credential file is looked for twice, and
\* each time it is missing the user is asked and may have it saved.
Startup ==
    /\ pc = "start"
    /\ \E save1, save2 \in BOOLEAN :
          /\ credsFile' = (credsFile \/ save1 \/ save2)
          /\ logged' = IF credsFile THEN Log({"loaded with username"})
                       ELSE IF save1 THEN Log({"credentials not found"})
                       ELSE Log({"credentials not found"}) (+) Log({"credentials not found"})
    /\ pc' = "login"
    /\ UNCHANGED <<downloads, written, beatmapsets, nextOid, s, data, collected, dirs, files, tries,
                   next_set, status, loginStatus, requests, dlLog, exitCode>>

\* a login that accepts every 2xx status
LoginOk_Any2xx(code) == Is2xx(code)

\* login: "if res.status_code != requests.codes.ok" is the failure branch
LoginOk(code) == code = CodesOk

\* get_token: the homepage is fetched and the csrf-token tag looked for;
\* an unreachable page makes session.get raise, a page without the tag
\* makes match.group raise on None.
TokenOutcomes == {"token", "absent", "unreachable"}

\* Downloader.login, get_token included.
Login ==
    /\ pc = "login"
    /\ \E tok \in TokenOutcomes, code \in StatusCodes, answer \in BOOLEAN :
          IF tok # "token"
          THEN /\ requests' = Issue("home")
               /\ Crash({"DOWNLOADER STARTED"})
               /\ UNCHANGED <<credsFile, loginStatus>>
          ELSE /\ requests' = [requests EXCEPT !.home = @ + 1, !.login = @ + 1]
               /\ loginStatus' = code
               /\ IF LoginOk(code)
                  THEN /\ logged' = Log({"DOWNLOADER STARTED", "Login successful"})
                       /\ pc' = "reading"
                       /\ UNCHANGED <<credsFile, exitCode>>
                  ELSE /\ logged' = Log({"DOWNLOADER STARTED", "Login failed",
                                         "Do you want to delete the osu! credentials"})
                       /\ credsFile' = (credsFile /\ ~answer)
                       /\ pc' = "login_failed"
                       /\ exitCode' = ExitFailure
    /\ UNCHANGED <<downloads, written, beatmapsets, nextOid, s, data, collected, dirs, files, tries,
                   next_set, status, dlLog>>

\* scrape_beatmapsets, the numeric branch: the index in data["beatmapsets"]
\* of the first set one of whose beatmaps has the id, 0 when there is none
\* (chkIfExists stays False).
HasBeatmap(bmset, id) == \E j \in 1..Len(bmset.beatmaps) : bmset.beatmaps[j] = id

RECURSIVE FirstMatch(_, _, _)
FirstMatch(sets, i, id) ==
    IF i > Len(sets) THEN 0
    ELSE IF HasBeatmap(sets[i], id) THEN i
    ELSE FirstMatch(sets, i + 1, id)

\* the comparison oneMap["id"] == int(s) is reached, so int(s) is evaluated
ComparisonReached(sets) == \E i \in 1..Len(sets) : Len(sets[i].beatmaps) > 0

\* a numeric branch without the chkIfExists guard: every owning set is added
NumericAdds_AllMatches(sets, id, oid) ==
    {BeatmapSet(sets[i], oid + i - 1) : i \in {k \in 1..Len(sets) : HasBeatmap(sets[k], id)}}

\* a numeric branch that falls through to the free-text branch on a miss
NumericAdds_FallThrough(sets, id, oid) ==
    LET i == FirstMatch(sets, 1, id)
    IN  IF i = 0 THEN {BeatmapSet(sets[k], oid + k - 1) : k \in 1..Len(sets)}
        ELSE {BeatmapSet(sets[i], oid)}

\* the objects one query constructs and adds to self.beatmapsets
NumericAdds(sets, id, oid) ==
    LET i == FirstMatch(sets, 1, id)
    IN  IF i = 0 THEN {} ELSE {BeatmapSet(sets[i], oid)}

TextAdds(sets, oid) == {BeatmapSet(sets[i], oid + i - 1) : i \in 1..Len(sets)}

\* set.add and set.update of a Python set: an element is absorbed when an
\* equal one is present, and BeatmapSet objects are equal only to themselves
SetUpdate(set, new) == set \cup new

\* scrape_beatmapsets: the line read is the sentinel, the loop ends
ScrapeSentinel ==
    /\ pc = "reading"
    /\ s' = Sentinel
    /\ data' = NoData
    /\ logged' = SetToBag({<<"Scraped", IntToStr(Cardinality(beatmapsets))>>})
    /\ pc' = "scraped"
    /\ UNCHANGED <<downloads, written, credsFile, beatmapsets, nextOid, collected, dirs, files, tries,
                   next_set, status, loginStatus, requests, dlLog, exitCode>>

\* an empty line that is sent to the search endpoint like a query
ScrapeEmpty_Searches ==
    /\ pc = "reading"
    /\ requests.search < MaxSearches
    /\ s' = <<>>
    /\ requests' = Issue("search")
    /\ logged' = EmptyBag
    /\ UNCHANGED <<downloads, written, pc, credsFile, beatmapsets, nextOid, data, collected,
                   dirs, files, tries, next_set, status, loginStatus, dlLog, exitCode>>

\* scrape_beatmapsets: the line read is empty, the next one is read
ScrapeEmpty ==
    /\ pc = "reading"
    /\ s' = <<>>
    /\ logged' = EmptyBag
    /\ UNCHANGED <<downloads, written, pc, credsFile, beatmapsets, nextOid, data, collected, dirs, files,
                   tries, next_set, status, loginStatus, requests, dlLog, exitCode>>

\* scrape_beatmapsets: one iteration of the loop for a query line
ScrapeQuery ==
    /\ pc = "reading"
    /\ requests.search < MaxSearches
    /\ \E line \in InputLines \ {<<>>, Sentinel}, response \in SearchResponses :
          LET sets == response.beatmapsets
              new  == IF IsNumeric(line)
                      THEN NumericAdds(sets, StrToInt(line), nextOid)
                      ELSE TextAdds(sets, nextOid)
          IN  /\ s' = line
              /\ data' = response
              /\ requests' = Issue("search")
              /\ IF ~response.json
                 THEN /\ Crash({})
                      /\ UNCHANGED <<beatmapsets, nextOid>>
                 ELSE IF IsNumeric(line) /\ IntRaises(line)
                 THEN IF ComparisonReached(sets)
                      THEN /\ Crash({})
                           /\ UNCHANGED <<beatmapsets, nextOid>>
                      ELSE /\ logged' = Log({"unable to find the beatmapset"})
                           /\ UNCHANGED <<pc, exitCode, beatmapsets, nextOid>>
                 ELSE /\ nextOid + Cardinality(new) - 1 <= MaxObjects
                      /\ beatmapsets' = SetUpdate(beatmapsets, new)
                      /\ nextOid' = nextOid + Cardinality(new)
                      /\ logged' = IF IsNumeric(line) /\ new = {}
                                   THEN Log({"unable to find the beatmapset"})
                                   ELSE EmptyBag
                      /\ UNCHANGED <<pc, exitCode>>
    /\ UNCHANGED <<downloads, written, credsFile, collected, dirs, files, tries, next_set, status,
                   loginStatus, dlLog>>

\* os.path.isdir and os.path.isfile under DOWNLOAD_PATH
IsDir(path) == path \in dirs
IsFile(path) == path \in files

\* a filter that looks for the archive file only
AlreadyDownloaded_FileOnly(b) == IsFile(FilePath(b))

\* remove_existing_beatmapsets: "if os.path.isdir(dir_path) or
\* os.path.isfile(file_path)" skips the record
AlreadyDownloaded(b) == IsDir(DirPath(b)) \/ IsFile(FilePath(b))

\* a filter whose result is never assigned to self.beatmapsets
FilteredSet_NotAssigned(set) == set

\* remove_existing_beatmapsets: the filtered_set the loop builds
FilteredSet(set) == {b \in set : ~AlreadyDownloaded(b)}

\* one "Beatmapset already downloaded" entry per skipped record
AlreadyLog(set) ==
    LET skipped == {b \in set : AlreadyDownloaded(b)}
        names   == {Str(b) : b \in skipped}
    IN  [e \in {<<"already downloaded", n>> : n \in names} |->
            Cardinality({b \in skipped : Str(b) = e[2]})]

\* Downloader.remove_existing_beatmapsets
RemoveExisting ==
    /\ pc = "scraped"
    /\ collected' = beatmapsets
    /\ beatmapsets' = FilteredSet(beatmapsets)
    /\ logged' = AlreadyLog(beatmapsets)
    /\ pc' = "filtered"
    /\ UNCHANGED <<downloads, written, credsFile, nextOid, s, data, dirs, files, tries, next_set, status,
                   loginStatus, requests, dlLog, exitCode>>

\* run, before the loop: the list is logged and tries is set to 0
RunStart ==
    /\ pc = "filtered"
    /\ tries' = 0
    /\ logged' = Log({"List of beatmaps to be downloaded:"})
                    (+)
                 [e \in {<<"listed", Str(b)>> : b \in beatmapsets} |->
                     Cardinality({b \in beatmapsets : Str(b) = e[2]})]
    /\ pc' = "running"
    /\ UNCHANGED <<downloads, written, credsFile, beatmapsets, nextOid, s, data, collected, dirs, files,
                   next_set, status, loginStatus, requests, dlLog, exitCode>>

\* a download that accepts every 2xx status
DownloadOk_Any2xx(code) == Is2xx(code)

\* download_beatmapset_file: "if response.status_code == requests.codes.ok"
DownloadOk(code) == code = CodesOk

\* a counter that a success does not reset
TriesAfter_NoReset(download_success, t) == IF download_success THEN t ELSE t + 1

\* run: the value of tries after an iteration
TriesAfter(download_success, t) == IF download_success THEN 0 ELSE t + 1

\* a ceiling that is off by one
CeilingBreached_OffByOne(t) == t > MaxTries + 1

\* run: "if tries > 4"
CeilingBreached(t) == t > MaxTries

\* a loop that forgets to put the failed record back
SetAfter_DropsOnFailure(download_success, rest, b) == rest

\* run: self.beatmapsets after an iteration that popped b
SetAfter(download_success, rest, b) ==
    IF download_success THEN rest ELSE SetUpdate(rest, {b})

\* write_beatmapset_file: it returns, or raises before the file is opened
\* (no content-length header, open fails), or raises while the chunks are
\* written, the file having been created by open(file_path, "wb")
WriteOutcomes == {"written", "raised before open", "raised after open"}

\* run: one iteration of the loop, download_beatmapset_file and
\* write_beatmapset_file included
RunIteration ==
    /\ pc = "running"
    /\ beatmapsets # {}
    /\ \E b \in beatmapsets, code \in StatusCodes, w \in WriteOutcomes :
          LET rest == beatmapsets \ {b}
          IN  /\ next_set' = b
              /\ status' = code
              /\ requests' = Issue("download")
              /\ IF DownloadOk(code)
                 THEN IF w = "written"
                      THEN /\ files' = files \cup {WritePath(Str(b))}
                           /\ written' = written \cup {<<WritePath(Str(b)), "complete">>}
                           /\ downloads' = downloads (+) SetToBag({b.set_id})
                           /\ dlLog' = Append(dlLog, "success")
                           /\ beatmapsets' = SetAfter(TRUE, rest, b)
                           /\ tries' = TriesAfter(TRUE, tries)
                           /\ logged' = Log({"Downloading beatmapset", "Download successful",
                                             "Writing file", "File write successful"})
                           /\ UNCHANGED <<pc, exitCode>>
                      ELSE /\ files' = IF w = "raised after open"
                                       THEN files \cup {WritePath(Str(b))}
                                       ELSE files
                           /\ written' = IF w = "raised after open"
                                         THEN written \cup {<<WritePath(Str(b)), "truncated">>}
                                         ELSE written
                           /\ dlLog' = Append(dlLog, "raised")
                           /\ beatmapsets' = rest
                           /\ Crash({"Downloading beatmapset", "Download successful",
                                     "Writing file"})
                           /\ UNCHANGED <<tries, downloads>>
                 ELSE /\ w = "written"
                      /\ dlLog' = Append(dlLog, "failure")
                      /\ beatmapsets' = SetAfter(FALSE, rest, b)
                      /\ tries' = TriesAfter(FALSE, tries)
                      /\ IF CeilingBreached(tries')
                         THEN /\ logged' = Log({"Downloading beatmapset", "Download failed",
                                                "Failed 5 times in a row",
                                                "DOWNLOADER TERMINATED"})
                              /\ pc' = "aborted"
                              /\ exitCode' = ExitSuccess
                         ELSE /\ logged' = Log({"Downloading beatmapset", "Download failed"})
                              /\ UNCHANGED <<pc, exitCode>>
                      /\ UNCHANGED <<files, downloads, written>>
    /\ UNCHANGED <<credsFile, nextOid, s, data, collected, dirs, loginStatus>>

\* run: the loop condition fails, run and main return
RunFinish ==
    /\ pc = "running"
    /\ beatmapsets = {}
    /\ logged' = Log({"DOWNLOADER FINISHED"})
    /\ pc' = "done"
    /\ exitCode' = ExitSuccess
    /\ UNCHANGED <<downloads, written, credsFile, beatmapsets, nextOid, s, data, collected, dirs, files, tries,
                   next_set, status, loginStatus, requests, dlLog>>

Next ==
    \/ Startup
    \/ Login
    \/ ScrapeSentinel
    \/ ScrapeEmpty
    \/ ScrapeQuery
    \/ RemoveExisting
    \/ RunStart
    \/ RunIteration
    \/ RunFinish

Spec == Init /\ [][Next]_vars

-----------------------------------------------------------------------------
\* Properties.

\* the number of "failure" entries at the end of a download log
RECURSIVE TrailingFailures(_)
TrailingFailures(log) ==
    IF Len(log) = 0 \/ log[Len(log)] # "failure" THEN 0
    ELSE 1 + TrailingFailures(SubSeq(log, 1, Len(log) - 1))

LastOutcome == IF dlLog = <<>> THEN "none" ELSE dlLog[Len(dlLog)]

\* C1: the Working Set never holds two records with the same set_id,
\* however often a set is returned within one search result or across
\* queries.
C1_NoDuplicateSetIds ==
    \A a, b \in beatmapsets : a.set_id = b.set_id => a = b

\* C2: every non-2xx download response counts as a failure; there are
\* never more than 5 failures in a row, the run is terminated exactly when
\* the 5th failure in a row has happened (so no request follows it), and
\* the record that failed last is then still in the Working Set.
C2_AbortAfterFive ==
    /\ (status # NoStatus /\ ~Is2xx(status)) => LastOutcome = "failure"
    /\ TrailingFailures(dlLog) <= 5
    /\ (pc = "aborted") <=> (TrailingFailures(dlLog) = 5)
    /\ pc = "aborted" => /\ next_set \in beatmapsets
                         /\ requests.download = Len(dlLog)

C2_Witness ==
    /\ pc = "aborted"
    /\ ~Is2xx(status)
    /\ Len(dlLog) > 5
    /\ TrailingFailures(dlLog) = 5
    /\ next_set \in beatmapsets

\* C3: the exit code is non-zero after a login failure and after a breach
\* of the consecutive-failure ceiling, and zero after a normal end.
C3_ExitCodes ==
    /\ pc = "login_failed" => exitCode \notin {NotExited, 0}
    /\ pc = "aborted" => exitCode \notin {NotExited, 0}
    /\ pc = "done" => exitCode = 0

\* C4: the consecutive-failure counter equals the number of failed
\* download attempts since the most recent success or the start of the
\* run, whichever record they were for (a download whose write raised has
\* ended the process before the counter is touched).
C4_CounterIsStreak ==
    LastOutcome # "raised" => tries = TrailingFailures(dlLog)

\* four failures, a success, and then the failure of another record: 1
C4_Witness ==
    /\ Len(dlLog) >= 6
    /\ SubSeq(dlLog, Len(dlLog) - 5, Len(dlLog))
          = <<"failure", "failure", "failure", "failure", "success", "failure">>
    /\ next_set \in beatmapsets
    /\ tries = 1

LoginFailureHandled ==
    /\ pc = "login_failed"
    /\ exitCode \notin {NotExited, 0}
    /\ CopiesIn(<<"Login failed", <<>>>>, logged) = 1
    /\ CopiesIn(<<"Do you want to delete the osu! credentials", <<>>>>, logged) = 1
    /\ requests.search = 0
    /\ requests.download = 0

\* C6 as stated: at most one login POST; a non-2xx login response is
\* fatal (logged, credential deletion offered, process terminated, no
\* search and no download request); any 2xx response lets the run proceed.
C6_Login2xx ==
    /\ requests.login <= 1
    /\ loginStatus # NoStatus =>
          IF Is2xx(loginStatus)
          THEN pc \notin {"start", "login", "login_failed"}
          ELSE LoginFailureHandled

\* C6 amended: as stated, with "status 200" for "2xx status".
C6_Login200 ==
    /\ requests.login <= 1
    /\ loginStatus # NoStatus =>
          IF loginStatus = 200
          THEN pc \notin {"start", "login", "login_failed"}
          ELSE LoginFailureHandled
    /\ (pc \in {"reading", "scraped", "filtered", "running", "aborted", "done"}
           \/ requests.search > 0 \/ requests.download > 0) => loginStatus = 200

\* a 2xx login response other than 200 has ended the run
C6_Witness ==
    /\ Is2xx(loginStatus)
    /\ loginStatus # 200
    /\ LoginFailureHandled
    /\ ~credsFile

\* the step is a search whose response parsed, for a numeric query with
\* an integer value that is the id of no beatmap of any returned set
NumericMiss ==
    /\ requests'.search = requests.search + 1
    /\ data'.json
    /\ IsNumeric(s')
    /\ ~IntRaises(s')
    /\ \A i \in 1..Len(data'.beatmapsets) :
          \A j \in 1..Len(data'.beatmapsets[i].beatmaps) :
             data'.beatmapsets[i].beatmaps[j] # StrToInt(s')

\* C7: a numeric query that matches no beatmap id of any returned set
\* leaves the Working Set unchanged, logs exactly one "not found" entry
\* and leaves the collector reading.
C7_NumericMissIsNoOp ==
    [][NumericMiss =>
          /\ beatmapsets' = beatmapsets
          /\ CopiesIn(<<"unable to find the beatmapset", <<>>>>, logged') = 1
          /\ BagCardinality(logged') = 1
          /\ pc = "reading"
          /\ pc' = "reading"
          /\ exitCode' = NotExited]_vars

\* a miss on a non-empty result, with a record already collected
C7_Witness ==
    /\ pc = "reading"
    /\ s = <<"9", "9">>
    /\ data.json
    /\ Len(data.beatmapsets) = 2
    /\ requests.search = 2
    /\ Cardinality(beatmapsets) = 2
    /\ CopiesIn(<<"unable to find the beatmapset", <<>>>>, logged) = 1

\* the records of a set that have an artifact in the download directory:
\* the directory named by the canonical name, or the file named by it
\* with ".osz" appended
WithArtifact(set) ==
    {b \in set : Str(b) \in dirs \/ (Str(b) \o <<".osz">>) \in files}

\* C8: the filter returns exactly the records without an artifact: of N
\* records of which M have one, N-M remain; it logs each excluded record
\* as already downloaded and does not change the filesystem.
C8_FilterYieldsNMinusM ==
    /\ [](pc = "filtered" =>
            /\ beatmapsets = collected \ WithArtifact(collected)
            /\ Cardinality(beatmapsets)
                  = Cardinality(collected) - Cardinality(WithArtifact(collected))
            /\ \A b \in WithArtifact(collected) :
                  CopiesIn(<<"already downloaded", Str(b)>>, logged) >= 1
            /\ BagCardinality(logged) = Cardinality(WithArtifact(collected)))
    /\ [][pc = "scraped" => (dirs' = dirs /\ files' = files)]_vars

\* three records, two of them with an artifact
C8_Witness ==
    /\ pc = "filtered"
    /\ Cardinality(collected) = 3
    /\ Cardinality(WithArtifact(collected)) = 2
    /\ Cardinality(beatmapsets) = 1

\* C9: the filter leaves no record that has an artifact in the Working
\* Set; from then on the Working Set gains no record, and every download
\* request is for a record of the Working Set, so a record the filter
\* excluded is never re-inserted and never requested.
C9_ExcludedStayOut ==
    [][/\ pc = "scraped" => beatmapsets' \cap WithArtifact(beatmapsets) = {}
       /\ pc \in {"filtered", "running"} => beatmapsets' \subseteq beatmapsets
       /\ requests'.download # requests.download =>
             /\ pc = "running"
             /\ next_set' \in beatmapsets]_vars

\* a record was excluded, and the run went through a failed download and
\* its re-insertion to the end
C9_Witness ==
    /\ pc = "done"
    /\ collected # {}
    /\ \E b \in collected : Str(b) \in dirs
    /\ \E i \in 1..Len(dlLog) : dlLog[i] = "failure"

\* C10: the process ends only normally, on an authentication error (the
\* token cannot be extracted, the login is refused) or on a breach of the
\* failure ceiling; a malformed search response and a failed write of the
\* downloaded file are logged and the loops continue.
C10_OnlyAuthAndCeilingTerminate ==
    exitCode # NotExited =>
        \/ pc \in {"done", "login_failed", "aborted"}
        \/ /\ pc = "crashed"
           /\ requests.login = 0

\* the files that were in the download directory before the run
FilesBefore == files \ {w[1] : w \in written}

\* the collected records the filter had no artifact for
NotExcluded ==
    {b \in collected : Str(b) \notin dirs /\ (Str(b) \o <<".osz">>) \notin FilesBefore}

\* C11: when the run ends normally, every beatmap set that was collected
\* and not excluded by the filter has had exactly one successful download
\* call, its file has been written, and the exit code is 0.
C11_OneDownloadPerSet ==
    pc = "done" =>
        /\ exitCode = 0
        /\ \A b \in NotExcluded :
              /\ CopiesIn(b.set_id, downloads) = 1
              /\ <<Str(b) \o <<".osz">>, "complete">> \in written

-----------------------------------------------------------------------------
\* The canonical name on its own: run lists one record whose artist and
\* title are drawn from strings over reserved and ordinary characters.

\* characters of a title
MaxTitleLen == 2

NameChars == {"a", "_", ":", "/", "*"}

FooBarBaz == [oid |-> 1, set_id |-> 5, artist |-> <<"A">>,
              title |-> <<"F", "o", "o", ":", " ", "B", "a", "r", "/", "B", "a", "z">>]

NamedRecords ==
    {[oid |-> 1, set_id |-> i, artist |-> a, title |-> t] :
        i \in {5, 12}, a \in {<<"A">>, <<"?", "|">>}, t \in SeqsUpTo(NameChars, MaxTitleLen)}
    \cup {FooBarBaz}

InitStr ==
    /\ pc = "filtered"
    /\ credsFile = TRUE
    /\ \E b \in NamedRecords : beatmapsets = {b} /\ collected = {b}
    /\ nextOid = 2
    /\ s = Sentinel
    /\ data = NoData
    /\ dirs = {}
    /\ files = {}
    /\ tries = 0
    /\ next_set = NoSet
    /\ status = NoStatus
    /\ loginStatus = CodesOk
    /\ requests = [home |-> 1, login |-> 1, search |-> 1, download |-> 0]
    /\ dlLog = <<>>
    /\ downloads = EmptyBag
    /\ written = {}
    /\ logged = EmptyBag
    /\ exitCode = NotExited

NextStr == RunStart

SpecStr == InitStr /\ [][NextStr]_vars

\* C12: the canonical name contains none of the characters < > : " / \ | ? *,
\* sanitising it again gives the same string, and set_id 5, artist "A",
\* title "Foo: Bar/Baz" give "5 A - Foo_ Bar_Baz".
C12_SanitiseIdempotent ==
    pc = "running" =>
        \A e \in BagToSet(logged) :
            e[1] = "listed" =>
                /\ \A i \in 1..Len(e[2]) :
                      e[2][i] \notin {"<", ">", ":", "\"", "/", "\\", "|", "?", "*"}
                /\ Sub(e[2]) = e[2]
                /\ beatmapsets = {FooBarBaz} =>
                      e[2] = <<"5", " ", "A", " ", "-", " ", "F", "o", "o", "_", " ",
                               "B", "a", "r", "_", "B", "a", "z">>

C12_Witness ==
    /\ pc = "running"
    /\ beatmapsets = {FooBarBaz}
    /\ BagIn(<<"listed", <<"5", " ", "A", " ", "-", " ", "F", "o", "o", "_", " ",
                           "B", "a", "r", "_", "B", "a", "z">>>>, logged)

-----------------------------------------------------------------------------
\* The program is one sequential thread: while a step is possible it is
\* taken (every request is answered, every input line arrives).
FairSpec == Spec /\ WF_vars(Next)

\* C13: the download loop terminates: once running, it eventually is DONE
\* (Working Set empty) or ABORTED (counter above 4).
C13_LoopTerminates ==
    (pc = "running") ~> (pc \in {"done", "aborted"})

\* get_token has been called and did not return a token
TokenFailed == requests.home > 0 /\ requests.login = 0

\* C14: when the token cannot be acquired the run ends as after a failed
\* login: no login, search or download request is issued, and the process
\* exits only after the failure was logged and the deletion of the
\* persisted credential was offered.
C14_TokenFailureLikeLoginFailure ==
    TokenFailed =>
        /\ requests.search = 0
        /\ requests.download = 0
        /\ exitCode # NotExited =>
              /\ CopiesIn(<<"Login failed", <<>>>>, logged) = 1
              /\ CopiesIn(<<"Do you want to delete the osu! credentials", <<>>>>, logged) = 1

\* C15: the collector leaves READING for DONE only on the line "-1", and
\* that line always ends it; an empty line issues no request and leaves
\* the Working Set alone; search requests are issued only while reading,
\* for a line that is neither empty nor the sentinel, and reading is never
\* resumed once it was left.
C15_SentinelEndsCollection ==
    [][/\ (pc = "reading" /\ pc' \notin {"reading", "crashed"}) =>
             (pc' = "scraped" /\ s' = <<"-", "1">>)
       /\ (pc = "reading" /\ s' = <<"-", "1">>) =>
             (pc' = "scraped" /\ requests' = requests /\ beatmapsets' = beatmapsets)
       /\ (pc = "reading" /\ s' = <<>>) =>
             (pc' = "reading" /\ requests' = requests /\ beatmapsets' = beatmapsets)
       /\ requests'.search # requests.search =>
             (pc = "reading" /\ s' \notin {<<>>, <<"-", "1">>})
       /\ pc' = "reading" => pc \in {"login", "reading"}]_vars

\* the sentinel was read after two queries
C15_Witness ==
    /\ pc = "scraped"
    /\ s = <<"-", "1">>
    /\ requests.search = 2
    /\ Cardinality(beatmapsets) = 3

\* the step is a search whose response parsed, for a numeric query with
\* an integer value that is the id of a beatmap of some returned set
NumericHit ==
    /\ requests'.search = requests.search + 1
    /\ data'.json
    /\ IsNumeric(s')
    /\ ~IntRaises(s')
    /\ \E i \in 1..Len(data'.beatmapsets) :
          \E j \in 1..Len(data'.beatmapsets[i].beatmaps) :
             data'.beatmapsets[i].beatmaps[j] = StrToInt(s')

\* C16: a numeric query with a match inserts exactly one record, built
\* from the first set, in the order of the response, that has a beatmap
\* with the id; nothing else is inserted or removed and no "not found"
\* entry is logged.
C16_FirstMatchOnly ==
    [][NumericHit =>
          LET sets == data'.beatmapsets
              Owns(i) == \E j \in 1..Len(sets[i].beatmaps) :
                            sets[i].beatmaps[j] = StrToInt(s')
              first == CHOOSE i \in 1..Len(sets) :
                          Owns(i) /\ \A k \in 1..(i - 1) : ~Owns(k)
              added == beatmapsets' \ beatmapsets
          IN  /\ beatmapsets \subseteq beatmapsets'
              /\ Cardinality(added) = 1
              /\ \A b \in added : /\ b.set_id = sets[first].id
                                  /\ b.title = sets[first].title
                                  /\ b.artist = sets[first].artist
              /\ CopiesIn(<<"unable to find the beatmapset", <<>>>>, logged') = 0
              /\ pc' = "reading"]_vars

\* beatmap 11 belongs to both returned sets; the first one, set 2, is in
C16_Witness ==
    /\ pc = "reading"
    /\ s = <<"1", "1">>
    /\ data.json
    /\ Len(data.beatmapsets) = 2
    /\ data.beatmapsets[1].id = 2
    /\ data.beatmapsets[2].id = 1
    /\ Cardinality(beatmapsets) = 1
    /\ \A b \in beatmapsets : b.set_id = 2

Downloaded == {b \in collected : <<Str(b) \o <<".osz">>, "complete">> \in written}

\* C18: the engine writes a record's archive at the path the filter
\* checks for it, and no step removes a file or a directory; so for every
\* record downloaded successfully, the filter run on a new record with the
\* same set_id, artist and title, as a later run would build it, excludes
\* that record.
C18_WrittenPathIsFilterPath ==
    /\ [](/\ LastOutcome = "success" => next_set \in Downloaded
          /\ \A b \in Downloaded :
                /\ IsFile(FilePath(b))
                /\ \A k \in 1..(MaxObjects + 1) :
                      FilteredSet({[b EXCEPT !.oid = k]}) = {})
    /\ [][files \subseteq files' /\ dirs \subseteq dirs']_vars

\* the run is over and has downloaded both sets into an empty directory
C18_Witness ==
    /\ pc = "done"
    /\ Cardinality(Downloaded) = 2
    /\ FilesBefore = {}
    /\ Cardinality(files) = 2

\* C19: no file is left at an archive path whose write did not complete,
\* so the filter of a later run does not exclude a record whose download
\* did not complete.
C19_NoTruncatedArchive ==
    /\ \A w \in written : w[2] = "truncated" => w[1] \notin files
    /\ (LastOutcome = "raised" /\ next_set \notin Downloaded) =>
          FilteredSet({[next_set EXCEPT !.oid = MaxObjects + 1]}) # {}

Successes == Cardinality({i \in 1..Len(dlLog) : dlLog[i] = "success"})

\* C20: with N records let through by the filter, the run issues at most
\* 5*N download requests; five failures in a row occur only as the last
\* five requests of the run; and an aborted run has had at most N-1
\* successes.
C20_AtMostFiveN ==
    /\ requests.download = Len(dlLog)
    /\ requests.download <= 5 * Cardinality(NotExcluded)
    /\ \A i \in 1..(Len(dlLog) - 4) :
          (\A k \in i..(i + 4) : dlLog[k] = "failure") => i + 4 = Len(dlLog)
    /\ pc = "aborted" => Successes <= Cardinality(NotExcluded) - 1

\* two records: four failures and a success, then five failures
C20_Witness ==
    /\ pc = "aborted"
    /\ Cardinality(NotExcluded) = 2
    /\ Successes = 1
    /\ requests.download = 10

====
